---------------------------- MODULE Spec2Model ----------------------------
(***************************************************************************)
(* Load-test profiles of the observability repository:                     *)
(*   scripts/load_test_extreme.py    ExtremePacing (staged load shape),    *)
(*                                   ExtremeUser, init listener            *)
(*   scripts/load_test_nominal.py    NominalUser                           *)
(*   scripts/load_test_optimized.py  User (four weighted tasks)            *)
(* Elapsed time is counted in whole seconds.                               *)
(***************************************************************************)
EXTENDS Integers, Sequences, FiniteSets

VARIABLES
    stages,        \* ExtremePacing.stages: the stage table (class attribute)
    started,       \* the init listener has run
    clock,         \* the scheduler's elapsed run time (get_run_time())
    run_time,      \* the elapsed time read by the last tick call
    result,        \* what the last tick call returned
    called,        \* tick has been called at least once
    probe,         \* history: one earlier call, <<t, returned value>>
    profile,       \* which script the simulated user runs
    pc,            \* the simulated user's position: new, ready, waiting
    last,          \* the last HTTP request of the user and how it was recorded
    num_requests,  \* stats.total.num_requests
    num_failures   \* stats.total.num_failures

shapeVars == <<stages, started, clock, run_time, result, called, probe>>
userVars == <<profile, pc, last, num_requests, num_failures>>
vars == <<stages, started, clock, run_time, result, called, probe,
          profile, pc, last, num_requests, num_failures>>

---------------------------------------------------------------------------
(* Bounds of the model *)

MaxStages == 3

MaxTime == 7

MaxClock == 185

MaxStep == 2

MaxRequests == 4

---------------------------------------------------------------------------
(* The stage table *)

\* return None
None == <<>>

Stage(d, u, s) == [duration |-> d, users |-> u, spawn_rate |-> s]

\* the table the extreme profile is configured with
ExtremeStages ==
    << Stage(30, 500, 50),
       Stage(60, 2000, 100),
       Stage(60, 3000, 200),
       Stage(30, 1000, 100) >>

\* durations a table may hold; nothing in the class rejects 0 or a negative one
Durations == {-1, 0, 1, 2}

Targets == { <<500, 50>>, <<2000, 100>> }

StageSet == { Stage(d, p[1], p[2]) : d \in Durations, p \in Targets }

Tables == UNION { [1..n -> StageSet] : n \in 0..MaxStages }

\* the configured table and its leading parts (one, two, three stages)
ConfiguredTables == { SubSeq(ExtremeStages, 1, n) : n \in 1..Len(ExtremeStages) }

Pair(stage) == <<stage.users, stage.spawn_rate>>

\* the sum of the durations of stages 1..i of a table
RECURSIVE CumThrough(_, _)
CumThrough(st, i) ==
    IF i = 0 THEN 0 ELSE CumThrough(st, i - 1) + st[i].duration

Total(st) == CumThrough(st, Len(st))

\* elapsed times tick is called with: every second up to MaxTime for a
\* short table, the seconds around each stage boundary for a long one
Times(st) ==
    IF Total(st) < MaxTime
    THEN 0..MaxTime
    ELSE { t \in { CumThrough(st, i) + d : i \in 0..Len(st), d \in {-1, 0, 1} } :
             t >= 0 }

---------------------------------------------------------------------------
(* ExtremePacing.tick *)

\* a mutated tick that never subtracts the durations it has passed
RECURSIVE ActiveStageNoSubtract(_, _, _)
ActiveStageNoSubtract(st, i, rt) ==
    IF i > Len(st) THEN 0
    ELSE IF rt < st[i].duration THEN i
    ELSE ActiveStageNoSubtract(st, i + 1, rt)

\* comparison of a mutated tick: <= where the code has <
RECURSIVE ActiveStageInclusive(_, _, _)
ActiveStageInclusive(st, i, rt) ==
    IF i > Len(st) THEN 0
    ELSE IF rt <= st[i].duration THEN i
    ELSE ActiveStageInclusive(st, i + 1, rt - st[i].duration)

\* the for loop: the index of the stage the loop returns from, 0 when it
\* runs off the end of the table; rt is the local run_time
RECURSIVE ActiveStage(_, _, _)
ActiveStage(st, i, rt) ==
    IF i > Len(st) THEN 0
    ELSE IF rt < st[i].duration THEN i
    ELSE ActiveStage(st, i + 1, rt - st[i].duration)

tick(st, t) ==
    LET i == ActiveStage(st, 1, t)
    IN IF i = 0 THEN None ELSE Pair(st[i])

NoProbe == <<>>

\* a mutated tick that writes the time it consumed back into the table
TickDraining(t, keep) ==
    LET a == ActiveStage(stages, 1, t)
        i == IF a = 0 THEN Len(stages) + 1 ELSE a
    IN /\ run_time' = t
       /\ result' = tick(stages, t)
       /\ called' = TRUE
       /\ probe' = IF keep THEN <<t, tick(stages, t)>> ELSE probe
       /\ stages' = [k \in 1..Len(stages) |->
                       IF k < i /\ stages[k].duration > 0
                       THEN [stages[k] EXCEPT !.duration = 0]
                       ELSE stages[k]]

\* one call of tick at elapsed time t; keep says whether the history
\* variable remembers this call
Tick(t, keep) ==
    /\ run_time' = t
    /\ result' = tick(stages, t)
    /\ called' = TRUE
    /\ probe' = IF keep THEN <<t, tick(stages, t)>> ELSE probe
    /\ UNCHANGED stages

\* the init listener: prints a banner for a master or a worker runner and
\* nothing else; the stage table is not looked at
on_locust_init ==
    /\ ~started
    /\ \E runner \in {"MasterRunner", "WorkerRunner", "LocalRunner"} :
          started' = TRUE
    /\ UNCHANGED <<stages, clock, run_time, result, called, probe>>
    /\ UNCHANGED userVars

\* tick called with an arbitrary elapsed time
TickAt ==
    /\ started
    /\ \E t \in Times(stages), keep \in BOOLEAN : Tick(t, keep)
    /\ UNCHANGED <<started, clock>>
    /\ UNCHANGED userVars

\* the scheduler's clock moves on
AdvanceClock ==
    /\ started
    /\ \E d \in 1..MaxStep :
          /\ clock + d <= MaxClock
          /\ clock' = clock + d
    /\ UNCHANGED <<stages, started, run_time, result, called, probe>>
    /\ UNCHANGED userVars

\* the scheduler's control loop calls tick at the current elapsed time
TickAtClock ==
    /\ started
    /\ Tick(clock, FALSE)
    /\ UNCHANGED <<started, clock>>
    /\ UNCHANGED userVars

---------------------------------------------------------------------------
(* Simulated users *)

Profiles == {"extreme", "nominal", "optimized"}

StrictProfiles == {"extreme", "nominal"}

Statuses == {200, 201, 204, 301, 399, 400, 404, 500, 503}

Health == "GET /health"
EventsUser == "POST /api/v1/events/user"
UserCreated == "POST /api/v1/events/user-created"
OrderPlaced == "POST /api/v1/events/order-placed"
PaymentProcessed == "POST /api/v1/events/payment-processed"

NoRequest == [endpoint |-> "none", status |-> 0, failed |-> FALSE]

\* a mutated check: only error statuses are marked
StrictFailedErrorsOnly(status) == status >= 400

\* catch_response=True with "if response.status_code != 200: response.failure(..)"
StrictFailed(status) == status # 200

\* a request sent without catch_response: the HTTP client's own rule
DefaultFailed(status) == status >= 400

\* one request is sent, answered with status, and recorded in the statistics
Request(endpoint, status, failed) ==
    /\ num_requests < MaxRequests
    /\ last' = [endpoint |-> endpoint, status |-> status, failed |-> failed]
    /\ num_requests' = num_requests + 1
    /\ num_failures' = IF failed THEN num_failures + 1 ELSE num_failures

\* on_start of all three user classes
on_start ==
    /\ pc = "new"
    /\ \E status \in Statuses : Request(Health, status, DefaultFailed(status))
    /\ pc' = "ready"
    /\ UNCHANGED profile
    /\ UNCHANGED shapeVars

\* a mutated task that posts again when the first post failed
create_user_event_retrying ==
    /\ pc = "ready"
    /\ profile \in StrictProfiles
    /\ num_requests + 1 < MaxRequests
    /\ \E s1 \in Statuses, s2 \in Statuses :
          IF StrictFailed(s1)
          THEN /\ last' = [endpoint |-> EventsUser, status |-> s2,
                           failed |-> StrictFailed(s2)]
               /\ num_requests' = num_requests + 2
               /\ num_failures' = num_failures + 1
                                   + (IF StrictFailed(s2) THEN 1 ELSE 0)
          ELSE Request(EventsUser, s1, FALSE)
    /\ pc' = "waiting"
    /\ UNCHANGED profile
    /\ UNCHANGED shapeVars

\* ExtremeUser.create_user_event and NominalUser.create_user_event
create_user_event ==
    /\ pc = "ready"
    /\ profile \in StrictProfiles
    /\ \E status \in Statuses :
          Request(EventsUser, status, StrictFailed(status))
    /\ pc' = "waiting"
    /\ UNCHANGED profile
    /\ UNCHANGED shapeVars

\* the four tasks of the optimized profile's User
optimized_task(endpoint) ==
    /\ pc = "ready"
    /\ profile = "optimized"
    /\ \E status \in Statuses :
          Request(endpoint, status, DefaultFailed(status))
    /\ pc' = "waiting"
    /\ UNCHANGED profile
    /\ UNCHANGED shapeVars

optimized_create_user_event == optimized_task(UserCreated)

create_order_event == optimized_task(OrderPlaced)

create_payment_event == optimized_task(PaymentProcessed)

health_check == optimized_task(Health)

\* wait_time = between(..): the pause before the next task
wait_time ==
    /\ pc = "waiting"
    /\ pc' = "ready"
    /\ UNCHANGED <<profile, last, num_requests, num_failures>>
    /\ UNCHANGED shapeVars

---------------------------------------------------------------------------
(* Specifications *)

UserIdle ==
    /\ profile = "extreme"
    /\ pc = "new"
    /\ last = NoRequest
    /\ num_requests = 0
    /\ num_failures = 0

ShapeIdle ==
    /\ started = FALSE
    /\ clock = 0
    /\ run_time = 0
    /\ result = None
    /\ called = FALSE
    /\ probe = NoProbe

\* tick over stage tables in general, called at arbitrary times
Init ==
    /\ stages \in Tables \cup ConfiguredTables
    /\ ShapeIdle
    /\ UserIdle

Next == on_locust_init \/ TickAt

Spec == Init /\ [][Next]_vars

\* tick as the scheduler calls it: the elapsed time never goes back
InitScheduled ==
    /\ stages = ExtremeStages
    /\ ShapeIdle
    /\ UserIdle

NextScheduled == on_locust_init \/ AdvanceClock \/ TickAtClock

SpecScheduled == InitScheduled /\ [][NextScheduled]_vars

\* one simulated user of each profile
InitUsers ==
    /\ stages = ExtremeStages
    /\ ShapeIdle
    /\ profile \in Profiles
    /\ pc = "new"
    /\ last = NoRequest
    /\ num_requests = 0
    /\ num_failures = 0

NextUsers ==
    \/ on_start
    \/ create_user_event
    \/ optimized_create_user_event
    \/ create_order_event
    \/ create_payment_event
    \/ health_check
    \/ wait_time

SpecUsers == InitUsers /\ [][NextUsers]_vars

---------------------------------------------------------------------------
(* Properties *)

Positive(st) == \A i \in 1..Len(st) : st[i].duration > 0

NonNegative(st) == \A i \in 1..Len(st) : st[i].duration >= 0

Malformed(st) == \E i \in 1..Len(st) : st[i].duration < 0

\* t lies in stage i's cumulative window
InWindow(st, i, t) ==
    /\ CumThrough(st, i - 1) <= t
    /\ t < CumThrough(st, i - 1) + st[i].duration

\* the table without its zero-duration stages
DropZero(st) == SelectSeq(st, LAMBDA stage : stage.duration # 0)

\* the values tick returns over [0, D)
Outputs(st) == { tick(st, t) : t \in 0..(Total(st) - 1) }

BoundaryExample == << Stage(30, 500, 50), Stage(60, 2000, 100) >>

\* C1: for a table of positive-duration stages and 0 <= t < total duration,
\* tick returns the pair of the one stage whose cumulative window holds t,
\* and two calls inside the same window return the same pair.
C1_WindowStage ==
    (called /\ Positive(stages) /\ run_time < Total(stages)) =>
        /\ \E i \in 1..Len(stages) :
              /\ InWindow(stages, i, run_time)
              /\ result = Pair(stages[i])
              /\ \A j \in 1..Len(stages) :
                    InWindow(stages, j, run_time) => j = i
        /\ \A i \in 1..Len(stages) :
              (/\ probe # NoProbe
               /\ InWindow(stages, i, probe[1])
               /\ InWindow(stages, i, run_time)) => probe[2] = result

C1_Witness ==
    /\ called
    /\ Positive(stages)
    /\ Len(stages) = 3
    /\ Pair(stages[1]) # Pair(stages[2])
    /\ probe # NoProbe
    /\ probe[1] # run_time
    /\ InWindow(stages, 2, probe[1])
    /\ InWindow(stages, 2, run_time)
    /\ result = Pair(stages[2])

\* C2: for a table without negative durations and every t >= total
\* duration (t equal to it included), tick returns None, never a pair.
C2_TerminalAfterTotal ==
    (called /\ NonNegative(stages) /\ run_time >= Total(stages)) =>
        result = None

C2_Witness ==
    /\ called
    /\ Positive(stages)
    /\ Len(stages) = 2
    /\ run_time = Total(stages)
    /\ result = None

\* C3: at t equal to the cumulative duration of stages 1..i tick returns
\* the pair of stage i+1 (None after the last stage), and one second earlier
\* the pair of stage i; with [(30,500,50),(60,2000,100)]: tick(29) = (500,50),
\* tick(30) = (2000,100), tick(89) = (2000,100), tick(90) = None, or the
\* third stage's pair when a third stage follows.
C3_BoundaryBelongsToNext ==
    (called /\ Positive(stages)) =>
        /\ \A i \in 1..Len(stages) :
              /\ run_time = CumThrough(stages, i) =>
                    result = IF i = Len(stages) THEN None
                             ELSE Pair(stages[i + 1])
              /\ run_time = CumThrough(stages, i) - 1 =>
                    result = Pair(stages[i])
        /\ stages = BoundaryExample =>
              /\ run_time = 29 => result = <<500, 50>>
              /\ run_time = 30 => result = <<2000, 100>>
              /\ run_time = 89 => result = <<2000, 100>>
              /\ run_time = 90 => result = None
        /\ (Len(stages) > 2 /\ SubSeq(stages, 1, 2) = BoundaryExample) =>
              (run_time = 90 => result = Pair(stages[3]))

C3_Witness ==
    /\ called
    /\ stages = BoundaryExample
    /\ run_time = 30
    /\ result = <<2000, 100>>
    /\ probe = <<29, <<500, 50>>>>

\* C4: no tick returns a (users, spawn_rate) pair computed from a table that
\* holds a negative duration.
C4_MalformedNeverServed ==
    Malformed(stages) => ~(called /\ result # None)

\* C5: status 200 is never marked failed; under the extreme and nominal
\* create_user_event every other status is marked failed; under the optimized
\* profile only statuses >= 400 are marked failed.
C5_Classification ==
    last # NoRequest =>
        /\ last.status = 200 => ~last.failed
        /\ (profile \in StrictProfiles /\ last.endpoint = EventsUser
              /\ last.status # 200) => last.failed
        /\ (profile = "optimized" /\ last.failed) => last.status >= 400

C5_Witness ==
    /\ profile = "nominal"
    /\ last.endpoint = EventsUser
    /\ last.status = 301
    /\ last.failed

\* C6 as stated: the number of distinct pairs tick returns over [0, D)
\* equals the number of stages of the table.
C6_DistinctEqualsStages ==
    (called /\ Positive(stages)) =>
        Cardinality(Outputs(stages)) = Len(stages)

\* C6 amended: over [0, D) tick returns as many distinct pairs as the
\* positive-duration stages hold distinct pairs; that is the number of stages
\* when every duration is positive and no two stages share a pair.
C6_DistinctEqualsDistinctPairs ==
    (called /\ NonNegative(stages)) =>
        /\ Cardinality(Outputs(stages)) =
              Cardinality({ Pair(stages[i]) :
                  i \in { k \in 1..Len(stages) : stages[k].duration > 0 } })
        /\ (/\ Positive(stages)
            /\ \A i, j \in 1..Len(stages) :
                  Pair(stages[i]) = Pair(stages[j]) => i = j) =>
              Cardinality(Outputs(stages)) = Len(stages)

C6_Witness ==
    /\ called
    /\ Positive(stages)
    /\ Len(stages) = 3
    /\ Pair(stages[1]) = Pair(stages[3])
    /\ Pair(stages[1]) # Pair(stages[2])
    /\ Cardinality(Outputs(stages)) = 2
    /\ result = Pair(stages[3])

\* C7: a failed request is counted once as a request and once as a failure,
\* is not sent again, and leaves the user going on to its next action.
C7_FailureCountedNotRetried ==
    [][ (num_requests' # num_requests /\ last'.failed) =>
            /\ num_requests' = num_requests + 1
            /\ num_failures' = num_failures + 1
            /\ pc' \in {"ready", "waiting"} ]_vars

C7_Witness ==
    /\ profile = "extreme"
    /\ num_failures = 2
    /\ num_requests = 4
    /\ last.endpoint = EventsUser
    /\ ~last.failed
    /\ pc = "waiting"

\* C8: a call of tick leaves the stage table as it was, and a call at the
\* time of a remembered earlier call returns what that call returned.
C8_TickIsPure ==
    [][ /\ stages' = stages
        /\ (probe' # NoProbe /\ run_time' = probe'[1]) =>
              result' = probe'[2] ]_vars

C8_Witness ==
    /\ called
    /\ Len(stages) = 3
    /\ probe # NoProbe
    /\ run_time = probe[1]
    /\ result = probe[2]
    /\ result = Pair(stages[3])
    /\ Pair(stages[3]) # Pair(stages[2])

\* C9: tick never returns from a zero-duration stage, and returns what it
\* returns for the table with the zero-duration stages removed.
C9_ZeroDurationSkipped ==
    (called /\ \E i \in 1..Len(stages) : stages[i].duration = 0) =>
        /\ \A i \in 1..Len(stages) :
              (stages[i].duration = 0
                 /\ \A j \in 1..Len(stages) :
                       (j # i /\ stages[j].duration # 0) =>
                          Pair(stages[j]) # Pair(stages[i]))
              => result # Pair(stages[i])
        /\ NonNegative(stages) =>
              \/ \E i \in 1..Len(stages) :
                    /\ stages[i].duration > 0
                    /\ InWindow(stages, i, run_time)
                    /\ result = Pair(stages[i])
              \/ /\ run_time >= Total(stages)
                 /\ result = None
        /\ LET short == DropZero(stages)
               j == ActiveStage(short, 1, run_time)
           IN result = IF j = 0 THEN None ELSE Pair(short[j])

C9_Witness ==
    /\ called
    /\ Len(stages) = 3
    /\ stages[1].duration = 0
    /\ stages[2].duration > 0
    /\ Pair(stages[1]) # Pair(stages[2])
    /\ run_time = 0
    /\ result = Pair(stages[2])

\* the targets the configured table is meant to give, second by second
Expected(t) ==
    IF t < 30 THEN <<500, 50>>
    ELSE IF t < 90 THEN <<2000, 100>>
    ELSE IF t < 150 THEN <<3000, 200>>
    ELSE IF t < 180 THEN <<1000, 100>>
    ELSE None

Rank(r) ==
    IF r = <<500, 50>> THEN 1
    ELSE IF r = <<2000, 100>> THEN 2
    ELSE IF r = <<3000, 200>> THEN 3
    ELSE IF r = <<1000, 100>> THEN 4
    ELSE 5

\* C10: with the configured table and an elapsed time that never goes back,
\* the targets are (500,50), (2000,100), (3000,200), (1000,100) in that
\* order, changing at 30, 90 and 150; None comes first at 180 and then on
\* every later call.
C10_ConfiguredProgression ==
    [][ called' =>
          /\ result' = Expected(run_time')
          /\ called => Rank(result') >= Rank(result)
          /\ (called /\ result = None) => result' = None ]_vars

C10_Witness ==
    /\ called
    /\ stages = ExtremeStages
    /\ run_time = 180
    /\ result = None

=============================================================================
